---- MODULE Spec2Model ----
(***************************************************************************)
(* The content ingestion pipeline of the SEWA village agent (server.js):   *)
(* the Telegram handlers for text, photo and document messages, the       *)
(* classifier analyzeContent with its provider fallback, and the GitHub    *)
(* content-store client (getFileFromGitHub / updateFileOnGitHub) holding   *)
(* data/news.json, data/gallery.json, images/* and documents/*.            *)
(*                                                                         *)
(* Every await of a handler is one step, so the handlers of two messages   *)
(* interleave at exactly the points where the Node.js event loop can       *)
(* switch between them.  The content store follows the GitHub contents     *)
(* API that octokit.rest.repos.createOrUpdateFileContents calls: a PUT on  *)
(* an existing path needs the blob sha of the file being replaced (none    *)
(* given: 422, another one given: 409).                                    *)
(*                                                                         *)
(* Not modelled: the date/timestamp fields of the records (read from the   *)
(* clock, used by no handler decision) and the commit messages.            *)
(***************************************************************************)
EXTENDS Integers, Sequences, FiniteSets, TLC

(***************************************************************************)
(* Bounds of the model and program constants.                              *)
(***************************************************************************)
NumMsgs == 2          \* messages handled, possibly concurrently
MaxExtra == 1         \* a stored news file may exceed the cap by this much
NewsCap == 50         \* newsData.slice(0, 50)
TitleLen == 50        \* text.slice(0, 50) in the fallback analysis

Handlers == 1..NumMsgs

Min(a, b) == IF a < b THEN a ELSE b

(***************************************************************************)
(* Texts are sequences of one-character strings.                           *)
(***************************************************************************)
Chars(n) == [i \in 1..n |-> IF i % 2 = 1 THEN "a" ELSE "b"]   \* "abab..."
Slice(t, n) == SubSeq(t, 1, Min(n, Len(t)))          \* t.slice(0, n)
StartsWithSlashNever(t) == FALSE
StartsWithSlash(t) == Len(t) > 0 /\ t[1] = "/"       \* t.startsWith('/')

ShortText == <<"h", "i">>
LongText == Chars(TitleLen + 1)
CommandText == <<"/", "s">>
DefaultCaption == <<"V", "i", "l", "l", "a", "g", "e", " ", "P", "h", "o", "t", "o">>
NoText == <<"undefined">>        \* an absent caption (ctx.message.caption undefined)
DocA == <<"a", ".", "p", "d", "f">>
DocB == <<"b", ".", "p", "d", "f">>
DocNames == {DocA, DocB}

(***************************************************************************)
(* Configuration: the allow-list and the two classifier clients.           *)
(***************************************************************************)
AdminId == 1
StrangerId == 2
Senders == {AdminId, StrangerId}

IsAdminNoOpenMode(ids, userId) == userId \in ids

IsAdmin(ids, userId) == IF ids = {} THEN TRUE ELSE userId \in ids

(***************************************************************************)
(* analyzeContent.  A provider call ends in one of: "ok" with the parsed   *)
(* object, "error" (the call throws), "unparsable" (JSON.parse throws),    *)
(* and for Gemini "nomatch" (no {...} substring in the response).          *)
(***************************************************************************)
ProviderCats == {"gallery", "heritage", "event"}

ProviderAnalysis(who, cat) ==
    [category |-> cat,
     title_hindi |-> <<"T", "h">>, title_english |-> <<"T", "e">>,
     description_hindi |-> <<"D", "h">>, description_english |-> <<"D", "e">>,
     suggested_section |-> "section", priority |-> "high", tags |-> <<who>>]

NoAnalysis ==
    [category |-> "none",
     title_hindi |-> <<>>, title_english |-> <<>>,
     description_hindi |-> <<>>, description_english |-> <<>>,
     suggested_section |-> "none", priority |-> "none", tags |-> <<>>]

Outcome(kind, a) == [kind |-> kind, analysis |-> a]
NotCalled == Outcome("not called", NoAnalysis)
OpenAIOutcomes ==
    {Outcome("ok", ProviderAnalysis("openai", c)) : c \in ProviderCats}
    \cup {Outcome("error", NoAnalysis), Outcome("unparsable", NoAnalysis)}
GeminiOutcomes ==
    {Outcome("ok", ProviderAnalysis("gemini", c)) : c \in ProviderCats}
    \cup {Outcome("error", NoAnalysis), Outcome("unparsable", NoAnalysis),
          Outcome("nomatch", NoAnalysis)}

DefaultAnalysisAlwaysNews(text, hasImage) ==
    [category |-> "news",
     title_hindi |-> Slice(text, TitleLen), title_english |-> Slice(text, TitleLen),
     description_hindi |-> text, description_english |-> text,
     suggested_section |-> "general", priority |-> "medium", tags |-> <<>>]

DefaultAnalysis(text, hasImage) ==
    [category |-> IF hasImage THEN "gallery" ELSE "news",
     title_hindi |-> Slice(text, TitleLen), title_english |-> Slice(text, TitleLen),
     description_hindi |-> text, description_english |-> text,
     suggested_section |-> "general", priority |-> "medium", tags |-> <<>>]

\* The result of analyzeContent and the provider calls it made, in order.
Analyzed(a, calls, raised) == [analysis |-> a, calls |-> calls, raised |-> raised]

\* The catch block: text.slice(0, 50) throws a TypeError on an undefined text.
Fallback(text, hasImage, calls) ==
    IF text = NoText
    THEN Analyzed(NoAnalysis, calls, TRUE)
    ELSE Analyzed(DefaultAnalysis(text, hasImage), calls, FALSE)

AnalyzeContent(text, hasImage, hasOpenAI, hasGemini, po, so) ==
    IF hasOpenAI
    THEN IF po.kind = "ok"
         THEN Analyzed(po.analysis, <<"openai">>, FALSE)
         ELSE Fallback(text, hasImage, <<"openai">>)
    ELSE IF hasGemini
         THEN IF so.kind = "ok"
              THEN Analyzed(so.analysis, <<"gemini">>, FALSE)
              ELSE Fallback(text, hasImage, <<"gemini">>)
         ELSE Fallback(text, hasImage, <<>>)

(***************************************************************************)
(* The content store.  A file is absent, a text or a blob; the text of a   *)
(* collection file is JSON of an array of records, JSON of something else  *)
(* (null, an object), not JSON at all, or the empty string.                *)
(***************************************************************************)
NewsPath == <<"data", "news.json">>
GalleryPath == <<"data", "gallery.json">>
ImagePath(filename) == <<"images", filename>>
DocPath(filename) == <<"documents", filename>>
ImageName(h) == <<"jpg", h>>      \* `${Date.now()}_${uuid8}.jpg`: unique per message
Collections == {NewsPath, GalleryPath}
Paths == Collections \cup {ImagePath(ImageName(h)) : h \in Handlers}
                     \cup {DocPath(n) : n \in DocNames}

Absent == [kind |-> "absent", json |-> "none", val |-> <<>>]
Blob(bytes) == [kind |-> "blob", json |-> "none", val |-> bytes]
InvalidText == [kind |-> "text", json |-> "invalid", val |-> <<>>]
EmptyText == [kind |-> "text", json |-> "empty", val |-> <<>>]
NullText == [kind |-> "text", json |-> "null", val |-> <<>>]
ObjectText == [kind |-> "text", json |-> "object", val |-> <<>>]

RecordKeysWithoutImage ==
    <<"id", "path", "title_hindi", "title_english", "description_hindi",
      "description_english", "category", "priority", "tags">>

\* The keys of the two record shapes, in the order the object literals list them.
RecordKeys ==
    <<"id", "path", "title_hindi", "title_english", "description_hindi",
      "description_english", "image", "category", "priority", "tags">>

\* The text of one object: its members as key/value pairs, in key order; a null
\* value is written like any other.
StringifyObject(rec) ==
    LET keys == SelectSeq(RecordKeys, LAMBDA k : k \in DOMAIN rec)
    IN  [i \in 1..Len(keys) |-> <<keys[i], rec[keys[i]]>>]

\* The text of an array of objects.
StringifyArray(arr) == [i \in 1..Len(arr) |-> StringifyObject(arr[i])]

\* Buffer.from(content).toString('base64') and
\* Buffer.from(response.data.content, 'base64').toString('utf-8')
ToBase64(text) == <<"base64", text>>
FromBase64(encoded) == encoded[2]

\* JSON.parse of the text of an object / of an array of objects.
ParseObject(members) ==
    [k \in {members[i][1] : i \in 1..Len(members)} |->
        members[CHOOSE i \in 1..Len(members) : members[i][1] = k][2]]
ParseArray(text) == [i \in 1..Len(text) |-> ParseObject(text[i])]

\* JSON.stringify(array, null, 2), sent base64-encoded.  The stored file is held
\* as the array its decoded text parses to.
JSONStringify(arr) ==
    [kind |-> "text", json |-> "array",
     val |-> ParseArray(FromBase64(ToBase64(StringifyArray(arr))))]

\* JSON.parse(content): the value, or a SyntaxError.
JSONParse(content) ==
    CASE content.json = "array" -> [threw |-> FALSE, isArray |-> TRUE, val |-> content.val]
      [] content.json \in {"null", "object"} ->
             [threw |-> FALSE, isArray |-> FALSE, val |-> <<>>]
      [] OTHER -> [threw |-> TRUE, isArray |-> FALSE, val |-> <<>>]

\* The blob sha GitHub reports for a file: a hash of its content.
NoSha == [present |-> FALSE, of |-> Absent]
ShaOf(file) == [present |-> TRUE, of |-> file]

\* getFileFromGitHub: { content, sha }, both null on a 404.
GetFile(st, path) ==
    IF st[path].kind = "absent"
    THEN [found |-> FALSE, content |-> Absent, sha |-> NoSha]
    ELSE [found |-> TRUE, content |-> st[path], sha |-> ShaOf(st[path])]

\* if (content): null and the empty string are falsy.
Truthy(got) == got.found /\ got.content.json # "empty"

WriteShaRefetched(st, path, sha) ==
    IF st[path].kind = "absent" THEN NoSha ELSE ShaOf(st[path])

\* updateFileOnGitHub: if (sha) params.sha = sha -- the sha the PUT carries.
WriteSha(st, path, sha) == sha

StoreAcceptsAnything(st, path, sha) == TRUE

\* createOrUpdateFileContents: whether the store accepts the PUT.
StoreAccepts(st, path, sha) ==
    IF st[path].kind = "absent"
    THEN ~sha.present
    ELSE sha.present /\ sha = ShaOf(st[path])

(***************************************************************************)
(* Records of the two collections, and the pure part of the two appends.   *)
(***************************************************************************)
NoPath == <<"null">>

ContentRecordFixedPriority(id, a, imagePath) ==
    [id |-> id,
     title_hindi |-> a.title_hindi, title_english |-> a.title_english,
     description_hindi |-> a.description_hindi,
     description_english |-> a.description_english,
     image |-> imagePath, category |-> a.category,
     priority |-> "medium", tags |-> a.tags]

ContentRecord(id, a, imagePath) ==
    [id |-> id,
     title_hindi |-> a.title_hindi, title_english |-> a.title_english,
     description_hindi |-> a.description_hindi,
     description_english |-> a.description_english,
     image |-> imagePath, category |-> a.category,
     priority |-> a.priority, tags |-> a.tags]

GalleryRecord(id, imagePath, a) ==
    [id |-> id, path |-> imagePath,
     title_hindi |-> a.title_hindi, title_english |-> a.title_english,
     category |-> a.category, tags |-> a.tags]

\* let newsData = []; if (content) { try { JSON.parse } catch { [] } }
\* The array the append starts from; isArray is FALSE when JSON.parse gave a
\* value that has no unshift (null, an object), on which unshift throws.
ParseCollection(got) ==
    IF ~Truthy(got)
    THEN [isArray |-> TRUE, val |-> <<>>]
    ELSE LET p == JSONParse(got.content)
         IN  IF p.threw THEN [isArray |-> TRUE, val |-> <<>>]
             ELSE [isArray |-> p.isArray, val |-> p.val]

NewsAfterAppendUntrimmed(newsData, record) == <<record>> \o newsData

\* newsData.unshift(record); newsData = newsData.slice(0, 50)
NewsAfterAppend(newsData, record) ==
    SubSeq(<<record>> \o newsData, 1, Min(NewsCap, Len(newsData) + 1))

GalleryAfterAppendCapped(galleryData, record) ==
    SubSeq(<<record>> \o galleryData, 1, Min(NewsCap, Len(galleryData) + 1))

\* galleryData.unshift(record)
GalleryAfterAppend(galleryData, record) == <<record>> \o galleryData

(***************************************************************************)
(* Messages.                                                               *)
(***************************************************************************)
Msg(type, from, text, caption, fileName) ==
    [type |-> type, from |-> from, text |-> text, caption |-> caption,
     file_name |-> fileName]

NoMsg == Msg("none", 0, NoText, NoText, NoText)

\* The messages the environment sends: a long text and a command; a photo with
\* and without a caption; a document "a.pdf" without and "b.pdf" with a caption.
TextMsgs == {Msg("text", s, t, NoText, NoText) :
                s \in Senders, t \in {LongText, CommandText}}
PhotoMsgs == {Msg("photo", s, NoText, c, NoText) :
                s \in Senders, c \in {NoText, ShortText}}
DocMsgs == {Msg("document", s, NoText, NoText, DocA) : s \in Senders}
           \cup {Msg("document", s, NoText, ShortText, DocB) : s \in Senders}
Messages == TextMsgs \cup PhotoMsgs \cup DocMsgs

\* a || b on captions: an absent caption is falsy.
OrElse(a, b) == IF a = NoText \/ a = <<>> THEN b ELSE a

\* The text each handler hands to analyzeContent, and its hasImage flag.
ClassifyText(m) ==
    CASE m.type = "text" -> m.text
      [] m.type = "photo" -> OrElse(m.caption, DefaultCaption)
      [] OTHER -> OrElse(m.caption, m.file_name)

HasImage(m) == m.type = "photo"

HandlerAnalysisUnforced(m, a) == a

\* analysis.category = 'document' in the document handler.
HandlerAnalysis(m, a) ==
    IF m.type = "document" THEN [a EXCEPT !.category = "document"] ELSE a

\* The path the blob of a photo or document is uploaded to.
BlobPath(h, m) ==
    IF m.type = "photo" THEN ImagePath(ImageName(h)) ELSE DocPath(m.file_name)

\* sharp(...).resize(...).jpeg(...).toBuffer() / the raw document bytes.
MediaBytes(h, m) == <<m.type, h>>
Optimized(bytes) == <<"jpeg", bytes>>
BlobBytesRaw(h, m) == MediaBytes(h, m)

BlobBytes(h, m) ==
    IF m.type = "photo" THEN Optimized(MediaBytes(h, m)) ELSE MediaBytes(h, m)

ToGalleryOnlyGallery(m, a) == m.type = "photo" /\ a.category = "gallery"

\* if (analysis.category === 'gallery' || analysis.category === 'heritage')
ToGallery(m, a) == m.type = "photo" /\ a.category \in {"gallery", "heritage"}

TargetPath(m, a) == IF ToGallery(m, a) THEN GalleryPath ELSE NewsPath

\* imagePath argument of addNewsToWebsite: only the photo handler passes one.
NewsImage(h, m) == IF m.type = "photo" THEN BlobPath(h, m) ELSE NoPath

\* The array the handler is about to write, from the array it read.
Appended(h, m, a, arr) ==
    IF ToGallery(m, a)
    THEN GalleryAfterAppend(arr, GalleryRecord(h, BlobPath(h, m), a))
    ELSE NewsAfterAppend(arr, ContentRecord(h, a, NewsImage(h, m)))

CollectionShaDropped(got) == NoSha

\* The sha addNewsToWebsite / addPhotoToGallery pass to updateFileOnGitHub.
CollectionSha(got) == got.sha

(***************************************************************************)
(* State.                                                                  *)
(***************************************************************************)
VARIABLES
    adminIds,   \* config.telegram.adminIds
    openai,     \* whether the OpenAI client was created
    genAI,      \* whether the Gemini client was created
    store,      \* the repository: path -> file
    ver,        \* path -> number of commits to that path so far
    base,       \* path -> the version the last committed content was computed from
    pc,         \* handler -> the call it is about to await, or its outcome
    msg,        \* handler -> its message
    analysis,   \* handler -> the analysis it holds
    asked,      \* handler -> the text it gave analyzeContent and the provider calls made
    readSha,    \* handler -> the sha its collection read returned
    readVer,    \* handler -> the version of the collection it read
    pending,    \* handler -> the array it is about to write
    putSha,     \* handler -> the sha its last PUT carried
    ack,        \* handler -> what its success reply carried
    err,        \* handler -> the error its catch block reported
    trace,      \* handler -> the calls it has made, in order
    probe       \* one call of analyzeContent on its own: its inputs and result

vars == <<adminIds, openai, genAI, store, ver, base, pc, msg, analysis, asked,
          readSha, readVer, pending, putSha, ack, err, trace, probe>>

config == <<adminIds, openai, genAI, probe>>

Ev(op, detail, res) == <<op, detail, res>>

PathLabel(p) ==
    IF p = NewsPath THEN "news" ELSE IF p = GalleryPath THEN "gallery" ELSE p[1]

NoAsked == [text |-> NoText, hasImage |-> FALSE, calls |-> <<>>, result |-> NoAnalysis]
NoAck == [kind |-> "none", category |-> "none", title |-> <<>>, id |-> 0,
          path |-> NoPath, file |-> NoText]

SeedNews(n) ==
    [i \in 1..n |-> ContentRecord(0 - i, ProviderAnalysis("seed", "news"), NoPath)]
SeedGallery(n) ==
    [i \in 1..n |-> GalleryRecord(0 - i, ImagePath(<<"seed", i>>),
                                  ProviderAnalysis("seed", "gallery"))]

StoreWith(news, gallery) ==
    [p \in Paths |-> IF p = NewsPath THEN news
                     ELSE IF p = GalleryPath THEN gallery ELSE Absent]

CapStores ==
    {StoreWith(JSONStringify(SeedNews(n)), JSONStringify(SeedGallery(n))) :
        n \in (NewsCap - 1)..(NewsCap + MaxExtra)}

\* A start of the process: the allow-list, the two clients, the repository.
Start(ids, hasOpenAI, hasGemini, st) ==
    [adminIds |-> ids, openai |-> hasOpenAI, genAI |-> hasGemini, store |-> st]

NoProbe ==
    [text |-> NoText, hasImage |-> FALSE, po |-> NotCalled, so |-> NotCalled,
     done |-> FALSE, out |-> Analyzed(NoAnalysis, <<>>, FALSE)]

Handling ==
    /\ ver = [p \in Paths |-> 0]
    /\ base = [p \in Paths |-> 0]
    /\ pc = [h \in Handlers |-> "idle"]
    /\ msg = [h \in Handlers |-> NoMsg]
    /\ analysis = [h \in Handlers |-> NoAnalysis]
    /\ asked = [h \in Handlers |-> NoAsked]
    /\ readSha = [h \in Handlers |-> NoSha]
    /\ readVer = [h \in Handlers |-> 0]
    /\ pending = [h \in Handlers |-> <<>>]
    /\ putSha = [h \in Handlers |-> NoSha]
    /\ ack = [h \in Handlers |-> NoAck]
    /\ err = [h \in Handlers |-> "none"]
    /\ trace = [h \in Handlers |-> <<>>]

InitWith(starts) ==
    /\ \E s \in starts :
         /\ adminIds = s.adminIds
         /\ openai = s.openai
         /\ genAI = s.genAI
         /\ store = s.store
    /\ probe = NoProbe
    /\ Handling

SeededStore == StoreWith(JSONStringify(SeedNews(1)), JSONStringify(SeedGallery(1)))

\* Open mode without classifier keys on an empty repository; an allow-list and
\* both classifier keys on a repository with content.
Init ==
    InitWith({Start({}, FALSE, FALSE, StoreWith(Absent, Absent)),
              Start({AdminId}, TRUE, TRUE, SeededStore)})

\* Collection files that exist but hold no array of records.
InitMalformed ==
    InitWith({Start({AdminId}, FALSE, FALSE, StoreWith(InvalidText, InvalidText)),
              Start({AdminId}, FALSE, FALSE, StoreWith(NullText, ObjectText)),
              Start({AdminId}, FALSE, FALSE, StoreWith(EmptyText, EmptyText))})

\* Collections at the cap of the news file.
InitCap ==
    InitWith({Start({AdminId}, FALSE, FALSE, st) : st \in CapStores})

(***************************************************************************)
(* Steps of a handler.                                                     *)
(***************************************************************************)
NextStageHangs(type, stage) ==
    CASE stage = "reply_processing" -> IF type = "text" THEN "classify" ELSE "get_link"
      [] stage = "get_link" -> "download"
      [] stage = "download" -> "hung"
      [] stage = "classify" -> IF type = "photo" THEN "optimize" ELSE "read"
      [] stage = "optimize" -> "upload"
      [] stage = "upload" -> IF type = "photo" THEN "read" ELSE "classify"
      [] stage = "read" -> "write"
      [] stage = "write" -> "reply_ack"
      [] OTHER -> "acked"

NextStageAckBeforeWrite(type, stage) ==
    CASE stage = "reply_processing" -> IF type = "text" THEN "classify" ELSE "get_link"
      [] stage = "get_link" -> "download"
      [] stage = "download" -> IF type = "photo" THEN "classify" ELSE "upload"
      [] stage = "classify" -> IF type = "photo" THEN "optimize" ELSE "read"
      [] stage = "optimize" -> "upload"
      [] stage = "upload" -> IF type = "photo" THEN "read" ELSE "classify"
      [] stage = "read" -> "reply_ack"
      [] OTHER -> "acked"

NextStagePhotoUploadFirst(type, stage) ==
    CASE stage = "reply_processing" -> IF type = "text" THEN "classify" ELSE "get_link"
      [] stage = "get_link" -> "download"
      [] stage = "download" -> IF type = "photo" THEN "optimize" ELSE "upload"
      [] stage = "classify" -> "read"
      [] stage = "optimize" -> "upload"
      [] stage = "upload" -> "classify"
      [] stage = "read" -> "write"
      [] stage = "write" -> "reply_ack"
      [] OTHER -> "acked"

\* The stage that follows `stage` in the handler of a message of this type.
NextStage(type, stage) ==
    CASE stage = "reply_processing" -> IF type = "text" THEN "classify" ELSE "get_link"
      [] stage = "get_link" -> "download"
      [] stage = "download" -> IF type = "photo" THEN "classify" ELSE "upload"
      [] stage = "classify" -> IF type = "photo" THEN "optimize" ELSE "read"
      [] stage = "optimize" -> "upload"
      [] stage = "upload" -> IF type = "photo" THEN "read" ELSE "classify"
      [] stage = "read" -> "write"
      [] stage = "write" -> "reply_ack"
      [] OTHER -> "acked"

FailNoReply(h, events, why) ==
    /\ pc' = [pc EXCEPT ![h] = "failed"]
    /\ err' = [err EXCEPT ![h] = why]
    /\ trace' = [trace EXCEPT ![h] = @ \o events]

\* catch (error) { ctx.reply('... ' + error.message) }
Fail(h, events, why) ==
    /\ pc' = [pc EXCEPT ![h] = "failed"]
    /\ err' = [err EXCEPT ![h] = why]
    /\ trace' = [trace EXCEPT ![h] = @ \o events \o <<Ev("reply", "error", why)>>]

Advance(h, event) ==
    /\ pc' = [pc EXCEPT ![h] = NextStage(msg[h].type, pc[h])]
    /\ trace' = [trace EXCEPT ![h] = Append(@, event)]
    /\ UNCHANGED err

\* bot.on(...): the synchronous head of a handler, up to its first await.
Receive(h) ==
    /\ pc[h] = "idle"
    /\ \E m \in Messages :
         /\ msg' = [msg EXCEPT ![h] = m]
         /\ IF ~IsAdmin(adminIds, m.from)
            THEN /\ pc' = [pc EXCEPT ![h] = "rejected"]
                 /\ trace' = [trace EXCEPT ![h] = <<Ev("reply", "rejected", "sent")>>]
            ELSE IF m.type = "text" /\ StartsWithSlash(m.text)
            THEN /\ pc' = [pc EXCEPT ![h] = "skipped"]
                 /\ UNCHANGED trace
            ELSE /\ pc' = [pc EXCEPT ![h] = "reply_processing"]
                 /\ UNCHANGED trace
    /\ UNCHANGED <<config, store, ver, base, analysis, asked, readSha, readVer,
                   pending, putSha, ack, err>>

\* await ctx.reply('Processing...')
ReplyProcessing(h) ==
    /\ pc[h] = "reply_processing"
    /\ \/ Advance(h, Ev("reply", "processing", "ok"))
       \/ Fail(h, <<Ev("reply", "processing", "fail")>>, "reply failed")
    /\ UNCHANGED <<config, store, ver, base, msg, analysis, asked, readSha, readVer,
                   pending, putSha, ack>>

\* await ctx.telegram.getFileLink(file_id)
GetFileLink(h) ==
    /\ pc[h] = "get_link"
    /\ \/ Advance(h, Ev("getFileLink", msg[h].type, "ok"))
       \/ Fail(h, <<Ev("getFileLink", msg[h].type, "fail")>>, "getFileLink failed")
    /\ UNCHANGED <<config, store, ver, base, msg, analysis, asked, readSha, readVer,
                   pending, putSha, ack>>

\* await axios.get(fileLink.href, { responseType: 'arraybuffer' })
Download(h) ==
    /\ pc[h] = "download"
    /\ \/ Advance(h, Ev("download", msg[h].type, "ok"))
       \/ Fail(h, <<Ev("download", msg[h].type, "fail")>>, "download failed")
    /\ UNCHANGED <<config, store, ver, base, msg, analysis, asked, readSha, readVer,
                   pending, putSha, ack>>

\* await analyzeContent(text, hasImage), and the forced category of a document
Classify(h) ==
    /\ pc[h] = "classify"
    /\ \E po \in IF openai THEN OpenAIOutcomes ELSE {NotCalled},
          so \in IF ~openai /\ genAI THEN GeminiOutcomes ELSE {NotCalled} :
         LET text == ClassifyText(msg[h])
             r == AnalyzeContent(text, HasImage(msg[h]), openai, genAI, po, so)
         IN  /\ asked' = [asked EXCEPT ![h] =
                    [text |-> text, hasImage |-> HasImage(msg[h]),
                     calls |-> r.calls, result |-> r.analysis]]
             /\ IF r.raised
                THEN /\ Fail(h, <<Ev("classify", msg[h].type, "fail")>>, "TypeError")
                     /\ UNCHANGED analysis
                ELSE /\ Advance(h, Ev("classify", msg[h].type, "ok"))
                     /\ analysis' = [analysis EXCEPT ![h] =
                                        HandlerAnalysis(msg[h], r.analysis)]
    /\ UNCHANGED <<config, store, ver, base, msg, readSha, readVer, pending, putSha,
                   ack>>

\* await sharp(imageBuffer)...toBuffer() in uploadImageToGitHub
Optimize(h) ==
    /\ pc[h] = "optimize"
    /\ \/ Advance(h, Ev("optimize", "photo", "ok"))
       \/ Fail(h, <<Ev("optimize", "photo", "fail")>>, "sharp failed")
    /\ UNCHANGED <<config, store, ver, base, msg, analysis, asked, readSha, readVer,
                   pending, putSha, ack>>

\* A PUT the store accepts: the file is replaced and the path gets a new version.
Commit(path, file, from) ==
    /\ store' = [store EXCEPT ![path] = file]
    /\ ver' = [ver EXCEPT ![path] = @ + 1]
    /\ base' = [base EXCEPT ![path] = from]

\* await updateFileOnGitHub(path, buffer, message): the blob, with no sha
Upload(h) ==
    /\ pc[h] = "upload"
    /\ LET path == BlobPath(h, msg[h])
           sent == WriteSha(store, path, NoSha)
       IN  \/ /\ StoreAccepts(store, path, sent)
              /\ Commit(path, Blob(BlobBytes(h, msg[h])), ver[path])
              /\ Advance(h, Ev("write", PathLabel(path), "ok"))
           \/ /\ ~StoreAccepts(store, path, sent)
              /\ Fail(h, <<Ev("write", PathLabel(path), "fail")>>, "sha was not supplied")
              /\ UNCHANGED <<store, ver, base>>
           \/ /\ Fail(h, <<Ev("write", PathLabel(path), "fail")>>, "request failed")
              /\ UNCHANGED <<store, ver, base>>
    /\ putSha' = [putSha EXCEPT ![h] = WriteSha(store, BlobPath(h, msg[h]), NoSha)]
    /\ UNCHANGED <<config, msg, analysis, asked, readSha, readVer, pending, ack>>

\* await getFileFromGitHub(collection), then parse, unshift and slice
ReadCollection(h) ==
    /\ pc[h] = "read"
    /\ LET path == TargetPath(msg[h], analysis[h])
           got == GetFile(store, path)
           arr == ParseCollection(got)
       IN  \/ /\ arr.isArray
              /\ Advance(h, Ev("read", PathLabel(path), "ok"))
              /\ readSha' = [readSha EXCEPT ![h] = CollectionSha(got)]
              /\ readVer' = [readVer EXCEPT ![h] = ver[path]]
              /\ pending' = [pending EXCEPT ![h] =
                                Appended(h, msg[h], analysis[h], arr.val)]
           \/ /\ ~arr.isArray
              /\ Fail(h, <<Ev("read", PathLabel(path), "ok")>>, "TypeError")
              /\ UNCHANGED <<readSha, readVer, pending>>
           \/ /\ Fail(h, <<Ev("read", PathLabel(path), "fail")>>, "request failed")
              /\ UNCHANGED <<readSha, readVer, pending>>
    /\ UNCHANGED <<config, store, ver, base, msg, analysis, asked, putSha, ack>>

\* await updateFileOnGitHub(collection, JSON.stringify(data, null, 2), message, sha)
WriteCollection(h) ==
    /\ pc[h] = "write"
    /\ LET path == TargetPath(msg[h], analysis[h])
           sent == WriteSha(store, path, readSha[h])
       IN  \/ /\ StoreAccepts(store, path, sent)
              /\ Commit(path, JSONStringify(pending[h]), readVer[h])
              /\ Advance(h, Ev("write", PathLabel(path), "ok"))
           \/ /\ ~StoreAccepts(store, path, sent)
              /\ Fail(h, <<Ev("write", PathLabel(path), "fail")>>,
                      IF sent.present THEN "sha does not match"
                      ELSE "sha was not supplied")
              /\ UNCHANGED <<store, ver, base>>
           \/ /\ Fail(h, <<Ev("write", PathLabel(path), "fail")>>, "request failed")
              /\ UNCHANGED <<store, ver, base>>
    /\ putSha' = [putSha EXCEPT ![h] =
                    WriteSha(store, TargetPath(msg[h], analysis[h]), readSha[h])]
    /\ UNCHANGED <<config, msg, analysis, asked, readSha, readVer, pending, ack>>

\* The fields the success reply of each handler interpolates.
AckOf(h, m, a) ==
    CASE m.type = "text" ->
            [kind |-> "text", category |-> a.category, title |-> a.title_hindi,
             id |-> h, path |-> NoPath, file |-> NoText]
      [] m.type = "photo" ->
            [kind |-> "photo", category |-> a.category, title |-> a.title_hindi,
             id |-> 0, path |-> BlobPath(h, m), file |-> NoText]
      [] OTHER ->
            [kind |-> "document", category |-> "none", title |-> <<>>,
             id |-> 0, path |-> BlobPath(h, m), file |-> m.file_name]

\* await ctx.reply('Successfully added ...')
ReplyAck(h) ==
    /\ pc[h] = "reply_ack"
    /\ \/ /\ Advance(h, Ev("reply", "ack", "ok"))
          /\ ack' = [ack EXCEPT ![h] = AckOf(h, msg[h], analysis[h])]
       \/ /\ Fail(h, <<Ev("reply", "ack", "fail")>>, "reply failed")
          /\ UNCHANGED ack
    /\ UNCHANGED <<config, store, ver, base, msg, analysis, asked, readSha, readVer,
                   pending, putSha>>

Next ==
    \E h \in Handlers :
        \/ Receive(h)
        \/ ReplyProcessing(h)
        \/ GetFileLink(h)
        \/ Download(h)
        \/ Classify(h)
        \/ Optimize(h)
        \/ Upload(h)
        \/ ReadCollection(h)
        \/ WriteCollection(h)
        \/ ReplyAck(h)

Spec == Init /\ [][Next]_vars

\* The awaited call of a handler returns or throws: the handler's next step.
Resume(h) ==
    \/ ReplyProcessing(h)
    \/ GetFileLink(h)
    \/ Download(h)
    \/ Classify(h)
    \/ Optimize(h)
    \/ Upload(h)
    \/ ReadCollection(h)
    \/ WriteCollection(h)
    \/ ReplyAck(h)

\* Every call a handler awaits eventually returns or fails.
SpecLive == Init /\ [][Next]_vars /\ \A h \in Handlers : WF_vars(Resume(h))
SpecMalformed == InitMalformed /\ [][Next]_vars
SpecCap == InitCap /\ [][Next]_vars

(***************************************************************************)
(* analyzeContent on its own: the inputs are drawn at the start, the one   *)
(* step applies the function.  Both providers have an outcome whether or   *)
(* not the function calls them.                                            *)
(***************************************************************************)
MaxOver == 2          \* the texts tried are up to this much longer than TitleLen

ProbeTexts == {Chars(n) : n \in 0..2} \cup
              {Chars(n) : n \in (TitleLen - 1)..(TitleLen + MaxOver)}

InitAnalyze ==
    /\ adminIds = {}
    /\ openai \in BOOLEAN
    /\ genAI \in BOOLEAN
    /\ store = StoreWith(Absent, Absent)
    /\ Handling
    /\ \E t \in ProbeTexts, img \in BOOLEAN, po \in OpenAIOutcomes, so \in GeminiOutcomes :
         probe = [NoProbe EXCEPT !.text = t, !.hasImage = img, !.po = po, !.so = so]

Analyze ==
    /\ ~probe.done
    /\ probe' = [probe EXCEPT
                    !.done = TRUE,
                    !.out = AnalyzeContent(probe.text, probe.hasImage, openai, genAI,
                                           probe.po, probe.so)]
    /\ UNCHANGED <<adminIds, openai, genAI, store, ver, base, pc, msg, analysis, asked,
                   readSha, readVer, pending, putSha, ack, err, trace>>

NextAnalyze == Analyze

SpecAnalyze == InitAnalyze /\ [][NextAnalyze]_vars

(***************************************************************************)
(* Properties.                                                             *)
(***************************************************************************)
Target(h) == TargetPath(msg[h], analysis[h])
Written(h) == pc[h] \in {"reply_ack", "acked"}
Ids(arr) == {arr[i].id : i \in 1..Len(arr)}

\* The step in which the store commits the collection write of handler h.
CommitStep(h) == pc[h] = "write" /\ pc'[h] = "reply_ack"

Unauthorized(h) == adminIds # {} /\ msg[h].from \notin adminIds

\* C1: a sender missing from a non-empty allow-list gets the rejection reply and
\* nothing else happens for that message (no download, no classification, no
\* store read or write), whatever the message type; with an empty allow-list no
\* sender is rejected.
AllowListGate ==
    /\ \A h \in Handlers :
         msg[h] # NoMsg =>
           /\ Unauthorized(h) =>
                /\ pc[h] = "rejected"
                /\ trace[h] = <<Ev("reply", "rejected", "sent")>>
                /\ asked[h] = NoAsked
                /\ analysis[h] = NoAnalysis
                /\ readSha[h] = NoSha
                /\ pending[h] = <<>>
           /\ adminIds = {} =>
                /\ pc[h] # "rejected"
                /\ \A i \in 1..Len(trace[h]) : trace[h][i][2] # "rejected"
    /\ (\A h \in Handlers : msg[h] = NoMsg \/ Unauthorized(h)) =>
           \A p \in Paths : ver[p] = 0

AllRejected ==
    \E h1, h2 \in Handlers :
        /\ msg[h1].type = "photo" /\ pc[h1] = "rejected"
        /\ msg[h2].type = "document" /\ pc[h2] = "rejected"

\* C2: a committed append to data/news.json that started from n records stores
\* min(n + 1, 50) records: the new record first, then the first min(n, 49)
\* records of the prior collection in their order.
NewsAppendCapped ==
    [][\A h \in Handlers :
          (CommitStep(h) /\ Target(h) = NewsPath /\ store[NewsPath].json = "array") =>
             LET old == store[NewsPath].val
                 new == store'[NewsPath].val
             IN  /\ store'[NewsPath].json = "array"
                 /\ Len(new) = Min(Len(old) + 1, NewsCap)
                 /\ new[1].id = h
                 /\ \A i \in 2..Len(new) : new[i] = old[i - 1]
                 /\ Len(new) - 1 = Min(Len(old), NewsCap - 1)]_vars

OldestEvicted ==
    /\ store[NewsPath].json = "array"
    /\ ver[NewsPath] = 2
    /\ Len(store[NewsPath].val) = NewsCap
    /\ (0 - (NewsCap - 1)) \notin Ids(store[NewsPath].val)
    /\ \E h \in Handlers : pc[h] = "acked"

\* C3: no committed content of a collection was computed from a version of
\* the file older than the one it replaced.
StaleWriteRejected ==
    \A p \in Collections : ver[p] > 0 => base[p] = ver[p] - 1

StaleWriteSeen ==
    \E h \in Handlers :
        /\ pc[h] = "failed"
        /\ err[h] \in {"sha does not match", "sha was not supplied"}
        /\ readVer[h] < ver[Target(h)]
        /\ Target(h) \in Collections

\* C4 as claimed: of two handlers that read the same version of a collection,
\* once the first has committed its write the second one's write is accepted too
\* (and replaces the first one's insertion).
SecondWriteWins ==
    \A h1, h2 \in Handlers :
        (/\ h1 # h2
         /\ pc[h1] = "write" /\ Written(h2)
         /\ Target(h1) = Target(h2)
         /\ readVer[h1] = readVer[h2]) =>
            StoreAccepts(store, Target(h1), WriteSha(store, Target(h1), readSha[h1]))

\* C4 as amended: of the handlers that read the same version of a collection at
\* most one commits its write, and the record of every handler whose write was
\* committed is in the stored collection.
NoLostUpdate ==
    /\ \A h1, h2 \in Handlers :
         (h1 # h2 /\ Written(h1) /\ Written(h2) /\ Target(h1) = Target(h2)) =>
            readVer[h1] # readVer[h2]
    /\ \A h \in Handlers :
         Written(h) =>
            /\ store[Target(h)].json = "array"
            /\ h \in Ids(store[Target(h)].val)

RaceLoserFails ==
    \E h1, h2 \in Handlers :
        /\ h1 # h2
        /\ pc[h1] = "acked"
        /\ pc[h2] = "failed" /\ err[h2] = "sha does not match"
        /\ Target(h1) = Target(h2)
        /\ readVer[h1] = readVer[h2]
        /\ Len(trace[h2]) > 2
        /\ trace[h2][Len(trace[h2]) - 2] = Ev("read", PathLabel(Target(h2)), "ok")

ProviderDown(configured, outcome) == ~configured \/ outcome.kind # "ok"

\* C5: analyzeContent raises nothing and returns a record; with both providers
\* unconfigured or failing the record is the default one: category gallery with
\* an image and news without, priority medium, no tags, the titles the first 50
\* characters of the text and the descriptions the text.
ClassifierNeverFails ==
    probe.done =>
      /\ ~probe.out.raised
      /\ probe.out.analysis # NoAnalysis
      /\ (ProviderDown(openai, probe.po) /\ ProviderDown(genAI, probe.so)) =>
           LET a == probe.out.analysis
               n == IF Len(probe.text) < TitleLen THEN Len(probe.text) ELSE TitleLen
           IN  /\ a.category = IF probe.hasImage THEN "gallery" ELSE "news"
               /\ a.priority = "medium"
               /\ a.tags = <<>>
               /\ Len(a.title_hindi) = n
               /\ \A i \in 1..n : a.title_hindi[i] = probe.text[i]
               /\ a.title_english = a.title_hindi
               /\ a.description_hindi = probe.text
               /\ a.description_english = probe.text

BothProvidersFailed ==
    /\ probe.done
    /\ openai /\ probe.po.kind = "unparsable"
    /\ genAI /\ probe.so.kind = "error"
    /\ probe.hasImage
    /\ Len(probe.text) > TitleLen
    /\ probe.out.analysis.category = "gallery"
    /\ Len(probe.out.analysis.title_hindi) = TitleLen

\* C6: the secondary provider is attempted whenever the primary is unconfigured
\* or fails, a working secondary then gives the result, and the default record is
\* returned only when the secondary is unconfigured or has failed too.
SecondaryTriedAfterPrimaryFails ==
    probe.done =>
      /\ (ProviderDown(openai, probe.po) /\ genAI) =>
            \E i \in 1..Len(probe.out.calls) : probe.out.calls[i] = "gemini"
      /\ (ProviderDown(openai, probe.po) /\ genAI /\ probe.so.kind = "ok") =>
            probe.out.analysis = probe.so.analysis
      /\ probe.out.analysis.suggested_section = "general" =>
            ProviderDown(genAI, probe.so)

IsCollectionWrite(e) == e \in {Ev("write", "news", "ok"), Ev("write", "gallery", "ok")}
CollectionWrites(t) == Cardinality({i \in 1..Len(t) : IsCollectionWrite(t[i])})
Before(t, e1, e2) ==
    \E i, j \in 1..Len(t) : i < j /\ t[i] = e1 /\ t[j] = e2
StoredArray(file) == IF file.json = "array" THEN file.val ELSE <<>>

\* C7: the collection write of a photo message goes to data/gallery.json, as a
\* gallery record, iff the category is gallery or heritage, and otherwise to
\* data/news.json as a content record whose image is the uploaded path; the other
\* collection is left as it is, the image was uploaded under images/ before, and
\* the message writes to a collection once.
PhotoRouting ==
    [][\A h \in Handlers :
          msg[h].type = "photo" =>
            /\ CommitStep(h) =>
                 LET a == analysis[h]
                     path == <<"images", ImageName(h)>>
                 IN  /\ store[path].kind = "blob"
                     /\ Before(trace'[h], Ev("write", "images", "ok"),
                               Ev("write", PathLabel(Target(h)), "ok"))
                     /\ IF a.category \in {"gallery", "heritage"}
                        THEN /\ store'[GalleryPath].val =
                                  <<[id |-> h, path |-> path,
                                     title_hindi |-> a.title_hindi,
                                     title_english |-> a.title_english,
                                     category |-> a.category, tags |-> a.tags]>>
                                  \o StoredArray(store[GalleryPath])
                             /\ store'[NewsPath] = store[NewsPath]
                        ELSE /\ store'[NewsPath].val[1].id = h
                             /\ store'[NewsPath].val[1].image = path
                             /\ store'[NewsPath].val[1].category = a.category
                             /\ "path" \notin DOMAIN store'[NewsPath].val[1]
                             /\ store'[GalleryPath] = store[GalleryPath]
            /\ Written(h)' => CollectionWrites(trace'[h]) = 1]_vars

PhotosRoutedBothWays ==
    \E h1, h2 \in Handlers :
        /\ msg[h1].type = "photo" /\ pc[h1] = "acked"
        /\ analysis[h1].category = "heritage"
        /\ store[GalleryPath].val[1].id = h1
        /\ msg[h2].type = "photo" /\ pc[h2] = "acked"
        /\ analysis[h2].category = "event"
        /\ store[NewsPath].val[1].id = h2
        /\ store[NewsPath].val[1].image = ImagePath(ImageName(h2))

\* C8: the collection write of a document message appends to data/news.json a
\* content record of category document with a null image, whatever the
\* classifier returned; the blob is at documents/<file name>; data/gallery.json
\* is not written; the text classified was the caption, or the file name when
\* there is no caption.
DocumentForced ==
    [][\A h \in Handlers :
          msg[h].type = "document" =>
            /\ CommitStep(h) =>
                 /\ store'[NewsPath].val[1] =
                       [id |-> h,
                        title_hindi |-> asked[h].result.title_hindi,
                        title_english |-> asked[h].result.title_english,
                        description_hindi |-> asked[h].result.description_hindi,
                        description_english |-> asked[h].result.description_english,
                        image |-> NoPath, category |-> "document",
                        priority |-> asked[h].result.priority,
                        tags |-> asked[h].result.tags]
                 /\ store'[GalleryPath] = store[GalleryPath]
                 /\ store[<<"documents", msg[h].file_name>>] = Blob(<<"document", h>>)
                 /\ asked[h].text = IF msg[h].caption # NoText THEN msg[h].caption
                                    ELSE msg[h].file_name
                 /\ ~asked[h].hasImage
            /\ \A i \in 1..Len(trace'[h]) : trace'[h][i][2] # "gallery"]_vars

DocumentRecategorised ==
    \E h \in Handlers :
        /\ msg[h].type = "document" /\ pc[h] = "acked"
        /\ msg[h].caption = NoText
        /\ asked[h].result.category = "heritage"
        /\ store[NewsPath].val[1].id = h
        /\ store[NewsPath].val[1].category = "document"
        /\ store[DocPath(DocA)].kind = "blob"

\* C9: the collection write of a text message puts one content record at the
\* head of data/news.json, with the classifier's category, titles, descriptions,
\* priority and tags and a null image; no other step of the handler changes the
\* store, so data/gallery.json and the blobs stay as they are; the success reply
\* carries that category, title and the id of the record.
TextAppendsOneRecord ==
    [][\A h \in Handlers :
          msg[h].type = "text" =>
            /\ CommitStep(h) =>
                 LET r == asked[h].result
                     rec == [id |-> h,
                             title_hindi |-> r.title_hindi,
                             title_english |-> r.title_english,
                             description_hindi |-> r.description_hindi,
                             description_english |-> r.description_english,
                             image |-> NoPath, category |-> r.category,
                             priority |-> r.priority, tags |-> r.tags]
                     old == StoredArray(store[NewsPath])
                 IN  /\ store'[NewsPath].json = "array"
                     /\ store'[NewsPath].val[1] = rec
                     /\ Len(store'[NewsPath].val) = Min(Len(old) + 1, NewsCap)
                     /\ \A i \in 2..Len(store'[NewsPath].val) :
                            store'[NewsPath].val[i] = old[i - 1]
                     /\ \A p \in Paths \ {NewsPath} : store'[p] = store[p]
            /\ (pc'[h] # pc[h] /\ ~CommitStep(h)) => store' = store
            /\ Written(h)' => CollectionWrites(trace'[h]) = 1
            /\ (pc[h] = "reply_ack" /\ pc'[h] = "acked") =>
                 /\ ack'[h].category = asked[h].result.category
                 /\ ack'[h].title = asked[h].result.title_hindi
                 /\ ack'[h].id = h
                 /\ ack'[h].kind = "text"]_vars

TextAcknowledged ==
    \E h \in Handlers :
        /\ msg[h].type = "text" /\ pc[h] = "acked"
        /\ asked[h].result.category = "event"
        /\ ack[h].category = "event" /\ ack[h].id = h
        /\ store[NewsPath].val[1].id = h
        /\ Len(store[NewsPath].val) = 2

Malformed(file) == file.kind = "text" /\ file.json \in {"invalid", "null", "object"}

\* C10: when the stored collection file exists but holds no array of records
\* (unparsable text, JSON null, a JSON object), a read that returns it is followed
\* by the write of a one-element collection, which the store commits.
MalformedTreatedAsEmpty ==
    [][\A h \in Handlers :
          /\ (/\ pc[h] = "read" /\ pc'[h] # "read"
              /\ Malformed(store[Target(h)])
              /\ \E i \in 1..Len(trace'[h]) :
                    trace'[h][i] = Ev("read", PathLabel(Target(h)), "ok")) =>
                (pc'[h] = "write" /\ Len(pending'[h]) = 1)
          /\ (/\ pc[h] = "write" /\ pc'[h] # "write"
              /\ Malformed(store[Target(h)])
              /\ err'[h] # "request failed") =>
                (CommitStep(h) /\ Len(store'[Target(h)].val) = 1)]_vars

ErrorReplies(t) == {i \in 1..Len(t) : t[i][1] = "reply" /\ t[i][2] = "error"}
Occurs(t, e) == \E i \in 1..Len(t) : t[i] = e

\* C11: a handler that failed made its calls one after another, each at most
\* once and each before the failing one successful; the failing call is followed
\* by exactly one reply, the error reply carrying the error's message, and by
\* nothing else: no success acknowledgment was sent.  A handler that has not
\* failed has sent no error reply.
FailureShortCircuits ==
    \A h \in Handlers :
        /\ pc[h] = "failed" =>
             LET t == trace[h]
                 n == Len(t)
             IN  /\ n >= 2
                 /\ err[h] # "none"
                 /\ t[n] = <<"reply", "error", err[h]>>
                 /\ ErrorReplies(t) = {n}
                 /\ \A i \in 1..(n - 2) : t[i][3] = "ok"
                 /\ t[n - 1][3] = "fail" \/ err[h] = "TypeError"
                 /\ \A i, j \in 1..(n - 1) :
                        i # j => <<t[i][1], t[i][2]>> # <<t[j][1], t[j][2]>>
                 /\ ~Occurs(t, <<"reply", "ack", "ok">>)
                 /\ ack[h] = NoAck
        /\ pc[h] # "failed" => (ErrorReplies(trace[h]) = {} /\ err[h] = "none")

FailedAtTwoStages ==
    \E h1, h2 \in Handlers :
        /\ msg[h1].type = "photo" /\ pc[h1] = "failed" /\ err[h1] = "sharp failed"
        /\ msg[h2].type = "text" /\ pc[h2] = "failed" /\ err[h2] = "request failed"
        /\ Occurs(trace[h2], <<"read", "news", "ok">>)
        /\ Occurs(trace[h2], <<"write", "news", "fail">>)

\* C12: a collection read of a path that does not exist is no error: the handler
\* goes on with no sha and an empty array.  A read of an existing path gives the
\* sha of the stored file.  A read that fails otherwise ends the handler with that
\* error.  The PUT that follows a read carries exactly the sha read: none after a
\* 404 (a create), the one read otherwise.
StoreClientTokens ==
    [][\A h \in Handlers :
          LET p == Target(h)
          IN  /\ (pc[h] = "read" /\ pc'[h] # "read") =>
                   \/ /\ pc'[h] = "failed" /\ err'[h] = "request failed"
                      /\ Occurs(trace'[h], <<"read", PathLabel(p), "fail">>)
                      /\ ~Occurs(trace'[h], <<"write", PathLabel(p), "ok">>)
                      /\ store' = store
                   \/ /\ store[p].kind = "absent"
                      /\ pc'[h] = "write" /\ err'[h] = "none"
                      /\ ~readSha'[h].present
                      /\ Len(pending'[h]) = 1
                   \/ /\ store[p].kind # "absent"
                      /\ pc'[h] = "write" /\ err'[h] = "none"
                      /\ readSha'[h] = [present |-> TRUE, of |-> store[p]]
              /\ (pc[h] = "write" /\ pc'[h] # "write") =>
                   /\ putSha'[h] = readSha[h]
                   /\ Occurs(trace'[h], <<"read", PathLabel(p), "ok">>)]_vars

CreatedThenUpdated ==
    \E h1, h2 \in Handlers :
        /\ msg[h1].type = "text" /\ pc[h1] = "acked"
        /\ ~readSha[h1].present /\ ~putSha[h1].present
        /\ msg[h2].type = "text" /\ pc[h2] = "acked"
        /\ readSha[h2].present /\ putSha[h2] = readSha[h2]
        /\ Len(store[NewsPath].val) = 2

IsMedia(h) == msg[h].type \in {"photo", "document"}
BlobLabel(h) == IF msg[h].type = "photo" THEN "images" ELSE "documents"
Uploaded(h) == IsMedia(h) /\ Occurs(trace[h], <<"write", BlobLabel(h), "ok">>)
WritesOk(t) == {i \in 1..Len(t) : t[i][1] = "write" /\ t[i][3] = "ok"}
Orphaned(h) ==
    /\ Uploaded(h)
    /\ pc[h] = "failed"
    /\ WritesOk(trace[h]) = {i \in 1..Len(trace[h]) : trace[h][i][2] = BlobLabel(h)}

\* C13: the step in which a photo or document handler fails after its upload
\* (in the classification, the collection read or the collection write) changes
\* nothing in the store.  From then on the blob is in the store, with the bytes
\* the handler uploaded, no collection holds a record of the message, and the
\* upload is the only write the handler ever made.
NoCleanupAfterUpload ==
    [][\A h \in Handlers :
          /\ (/\ Uploaded(h)
              /\ pc[h] \in {"classify", "read", "write"}
              /\ pc'[h] = "failed") =>
                /\ store' = store
                /\ Orphaned(h)'
          /\ Orphaned(h)' =>
                /\ store'[IF msg[h].type = "photo"
                          THEN <<"images", <<"jpg", h>>>>
                          ELSE <<"documents", msg[h].file_name>>] =
                      [kind |-> "blob", json |-> "none",
                       val |-> IF msg[h].type = "photo"
                               THEN <<"jpeg", <<"photo", h>>>>
                               ELSE <<"document", h>>]
                /\ \A p \in Collections : h \notin Ids(StoredArray(store'[p]))
                /\ Cardinality(WritesOk(trace'[h])) = 1]_vars

OrphanBlobs ==
    \E h1, h2 \in Handlers :
        /\ msg[h1].type = "photo" /\ Orphaned(h1)
        /\ Occurs(trace[h1], <<"write", "gallery", "fail">>)
        /\ store[ImagePath(ImageName(h1))].kind = "blob"
        /\ msg[h2].type = "document" /\ Orphaned(h2)
        /\ Occurs(trace[h2], <<"read", "news", "fail">>)
        /\ store[DocPath(msg[h2].file_name)].kind = "blob"
        /\ \A p \in Collections : Ids(StoredArray(store[p])) \cap {h1, h2} = {}

\* The calls of a trace without their results, the closing error reply left out.
Calls(t) ==
    LET n == IF ErrorReplies(t) = {} THEN Len(t) ELSE Len(t) - 1
    IN  [i \in 1..n |-> <<t[i][1], t[i][2]>>]
IsPrefix(a, b) == Len(a) <= Len(b) /\ \A i \in 1..Len(a) : a[i] = b[i]
FirstIndex(t, c) ==
    IF \E i \in 1..Len(t) : t[i] = c
    THEN CHOOSE i \in 1..Len(t) : t[i] = c /\ \A j \in 1..(i - 1) : t[j] # c
    ELSE Len(t) + 1

\* The calls of a complete run of each handler, in the order of its awaits; the
\* collection is the one the message is routed to.
TextOrder ==
    << <<"reply", "processing">>, <<"classify", "text">>,
       <<"read", "news">>, <<"write", "news">>, <<"reply", "ack">> >>
PhotoOrder(collection) ==
    << <<"reply", "processing">>, <<"getFileLink", "photo">>, <<"download", "photo">>,
       <<"classify", "photo">>, <<"optimize", "photo">>, <<"write", "images">>,
       <<"read", collection>>, <<"write", collection>>, <<"reply", "ack">> >>
DocumentOrder ==
    << <<"reply", "processing">>, <<"getFileLink", "document">>,
       <<"download", "document">>, <<"write", "documents">>,
       <<"classify", "document">>, <<"read", "news">>, <<"write", "news">>,
       <<"reply", "ack">> >>

\* C14 as claimed: every write a handler issues to the store, blob or
\* collection, comes after the classification of its message.
ClassifiedBeforeAnyWrite ==
    \A h \in Handlers :
        \A i \in 1..Len(trace[h]) :
            trace[h][i][1] = "write" =>
                \E j \in 1..(i - 1) : trace[h][j] = <<"classify", msg[h].type, "ok">>

\* C14 as amended: the calls of an authorized handler are a prefix of the order
\* of its type: reply, classification, collection read and write, acknowledgment
\* for a text; reply, download, classification, media processing, blob upload,
\* collection read and write, acknowledgment for a photo; reply, download, blob
\* upload, classification, collection read and write, acknowledgment for a
\* document.  No collection write comes before the classification, and the
\* blob upload comes before it for a document only.
StageOrder ==
    \A h \in Handlers :
        (msg[h] # NoMsg /\ pc[h] # "rejected") =>
            LET c == Calls(trace[h])
                classified == FirstIndex(c, <<"classify", msg[h].type>>)
            IN  /\ CASE msg[h].type = "text" -> IsPrefix(c, TextOrder)
                     [] msg[h].type = "photo" ->
                            \E coll \in {"news", "gallery"} : IsPrefix(c, PhotoOrder(coll))
                     [] OTHER -> IsPrefix(c, DocumentOrder)
                /\ \A i \in 1..Len(c) :
                       (c[i][1] = "write" /\ c[i][2] \in {"news", "gallery"}) =>
                           classified < i
                /\ \A i \in 1..Len(c) :
                       (c[i][1] = "write" /\ i < classified) =>
                           (msg[h].type = "document" /\ c[i][2] = "documents")

DocumentUploadedUnclassified ==
    \E h1, h2 \in Handlers :
        /\ msg[h1].type = "document" /\ pc[h1] = "classify"
        /\ asked[h1] = NoAsked
        /\ store[DocPath(msg[h1].file_name)] = Blob(BlobBytes(h1, msg[h1]))
        /\ msg[h2].type = "photo" /\ pc[h2] = "acked"
        /\ Len(trace[h2]) = Len(PhotoOrder("news"))

GalleryUncapped ==
    [][\A h \in Handlers :
          (CommitStep(h) /\ Target(h) = GalleryPath) =>
             LET old == StoredArray(store[GalleryPath])
                 new == store'[GalleryPath].val
             IN  /\ store'[GalleryPath].json = "array"
                 /\ Len(new) = Len(old) + 1
                 /\ new[1].id = h
                 /\ new[1].path = <<"images", <<"jpg", h>>>>
                 /\ \A i \in 1..Len(old) : new[i + 1] = old[i]]_vars

GalleryGrowsPastCap ==
    \E h1, h2 \in Handlers :
        /\ h1 # h2
        /\ pc[h1] = "acked" /\ pc[h2] = "acked"
        /\ Target(h1) = GalleryPath /\ Target(h2) = GalleryPath
        /\ Len(store[GalleryPath].val) = NewsCap + 2
        /\ store[GalleryPath].val[1].id = h2
        /\ store[GalleryPath].val[2].id = h1
        /\ \A i \in 1..NewsCap : (0 - i) \in Ids(store[GalleryPath].val)

\* C17: the upload of a document to a path that already holds a document is
\* accepted by the store, the handler goes on, and the stored blob is then the
\* content of this later upload.
DocumentLastWriteWins ==
    [][\A h \in Handlers :
          (/\ msg[h].type = "document"
           /\ pc[h] = "upload" /\ pc'[h] # "upload"
           /\ store[<<"documents", msg[h].file_name>>].kind = "blob"
           /\ err'[h] # "request failed") =>
              /\ pc'[h] = "classify"
              /\ store'[<<"documents", msg[h].file_name>>] =
                    [kind |-> "blob", json |-> "none", val |-> <<"document", h>>]]_vars

AckSent(h) == Occurs(trace[h], <<"reply", "ack", "ok">>)

\* C18: the store accepts the collection write of a handler with the message's
\* record at the head; the handler sends its success reply only after that write
\* was accepted, the record being in the stored collection at that moment; a
\* handler that sent the success reply sends no error reply, and one that went
\* through both the collection write and an error reply failed in sending the
\* success reply.
AckAfterCommit ==
    [][\A h \in Handlers :
          /\ CommitStep(h) => store'[Target(h)].val[1].id = h
          /\ (pc[h] = "reply_ack" /\ pc'[h] = "acked") =>
                /\ Before(trace'[h], <<"write", PathLabel(Target(h)), "ok">>,
                          <<"reply", "ack", "ok">>)
                /\ store[Target(h)].json = "array"
                /\ h \in Ids(store[Target(h)].val)
                /\ ack'[h] # NoAck
          /\ AckSent(h)' =>
                /\ pc'[h] = "acked"
                /\ ErrorReplies(trace'[h]) = {}
                /\ CollectionWrites(trace'[h]) = 1
          /\ (ErrorReplies(trace'[h]) # {} /\ CollectionWrites(trace'[h]) > 0) =>
                /\ Occurs(trace'[h], <<"reply", "ack", "fail">>)
                /\ ack'[h] = NoAck
          /\ ack'[h] # NoAck => AckSent(h)']_vars

AckedAndAckFailed ==
    \E h1, h2 \in Handlers :
        /\ msg[h1].type = "document" /\ pc[h1] = "acked" /\ AckSent(h1)
        /\ msg[h2].type = "photo" /\ pc[h2] = "failed"
        /\ Occurs(trace[h2], <<"reply", "ack", "fail">>)
        /\ h1 \in Ids(store[NewsPath].val)
        /\ h2 \in Ids(store[Target(h2)].val)

IsCommand(m) == m.type = "text" /\ m.text[1] = "/"

\* C19: a text message that starts with '/' from an authorized sender ends the
\* text handler at once: no reply, no classification, no store read or write.
\* From a sender missing from a non-empty allow-list it gets the rejection reply
\* and nothing else.  Messages of these two kinds alone leave the store as it is.
CommandSkipped ==
    /\ \A h \in Handlers :
         IsCommand(msg[h]) =>
            /\ pc[h] = IF Unauthorized(h) THEN "rejected" ELSE "skipped"
            /\ trace[h] = IF Unauthorized(h)
                          THEN << <<"reply", "rejected", "sent">> >> ELSE <<>>
            /\ asked[h] = NoAsked
            /\ analysis[h] = NoAnalysis
            /\ readSha[h] = NoSha
            /\ pending[h] = <<>>
            /\ ack[h] = NoAck
            /\ err[h] = "none"
    /\ \A h \in Handlers : pc[h] = "skipped" => IsCommand(msg[h])
    /\ (\A h \in Handlers : msg[h] = NoMsg \/ IsCommand(msg[h])) =>
           \A p \in Paths : ver[p] = 0

CommandSkippedAndRejected ==
    \E h1, h2 \in Handlers :
        /\ IsCommand(msg[h1]) /\ msg[h1].from = AdminId /\ pc[h1] = "skipped"
        /\ IsCommand(msg[h2]) /\ msg[h2].from = StrangerId /\ pc[h2] = "rejected"
        /\ adminIds = {AdminId}

Terminal == {"rejected", "skipped", "acked", "failed"}

\* C20: when every awaited call returns or fails, the handler of every message
\* received reaches one of the outcomes rejected, skipped, acknowledged, failed;
\* a handler that has reached its outcome keeps it and makes no further call, in
\* particular no store write.
HandlersTerminate ==
    /\ \A h \in Handlers : (msg[h] # NoMsg) ~> (pc[h] \in Terminal)
    /\ [][\A h \in Handlers :
             pc[h] \in Terminal =>
                /\ pc'[h] = pc[h]
                /\ trace'[h] = trace[h]
                /\ putSha'[h] = putSha[h]
                /\ ack'[h] = ack[h]]_vars

AllOutcomesFinal ==
    \E h1, h2 \in Handlers :
        /\ pc[h1] = "skipped" /\ pc[h2] = "acked"
        /\ msg[h2].type = "photo"
        /\ Len(store[GalleryPath].val) = 2

====
